---- MODULE Spec2Model ----
(***************************************************************************)
(* Model of the maya-tests harness.                                        *)
(*                                                                         *)
(*   run_tests.py  the launcher: resolves mayapy, copies the clean         *)
(*                 preferences directory, spawns mayapy on suite.py,       *)
(*                 relays the exit code and removes the copy.              *)
(*   suite.py      the in-process entry point: maya.standalone session,    *)
(*                 unittest discovery, TextTestRunner, exit status.        *)
(*                                                                         *)
(* Spec       several launcher processes running concurrently on one host. *)
(* SuiteSpec  one run of suite.py inside mayapy.                           *)
(***************************************************************************)
EXTENDS Integers, FiniteSets, Sequences, TLC

----------------------------------------------------------------------------
(* Bounds *)

\* number of launcher processes started on the host
NumRuns == 2

\* size of the pool the uuid4 values are drawn from
NumNames == 2

Runs == 1..NumRuns
Names == 1..NumNames

None == "None"

----------------------------------------------------------------------------
(* Paths and strings of run_tests.py *)

CURRENT_DIR == "/repo/maya-tests"

PARENT_REPO_MODULE_PATH == CURRENT_DIR \o "/" \o ".." \o "/" \o "modules"

\* ";".join([PARENT_REPO_MODULE_PATH, CURRENT_DIR])
ModulePath == PARENT_REPO_MODULE_PATH \o ";" \o CURRENT_DIR

\* tempfile.gettempdir()
TempDir == "/tmp"

\* os.path.join(temp_dir, "maya_app_dir{0}".format(str(uuid.uuid4())))
AppDirPath(n) == TempDir \o "/" \o "maya_app_dir" \o ToString(n)

Platforms == {"Windows", "Darwin", "Linux"}

\* values of -m/--maya the runs are started with (2020 is the default)
Versions == {2015, 2016, 2020}

\* value MAYA_LOCATION is set to when the override is used
OverrideLocation == "/opt/maya"

----------------------------------------------------------------------------
(* Environment dictionaries: functions from variable names to strings *)

\* env.update(upd)
Update(e, upd) ==
  [k \in (DOMAIN e) \cup (DOMAIN upd) |-> IF k \in DOMAIN upd THEN upd[k] ELSE e[k]]

\* the dictionary literal passed to env.update in main
EnvOverrides(maya_app_dir) ==
  [k \in {"MAYA_APP_DIR", "MAYA_SCRIPT_PATH", "MAYA_MODULE_PATH"} |->
     CASE k = "MAYA_APP_DIR" -> maya_app_dir
       [] k = "MAYA_SCRIPT_PATH" -> ""
       [] k = "MAYA_MODULE_PATH" -> ModulePath]

\* env = os.environ.copy(); env.update({...}): the dictionary given to call()
ChildEnv(environ, maya_app_dir) == Update(environ, EnvOverrides(maya_app_dir))

\* os.environ itself after main built env: the update went to a copy
LauncherEnvAliased(environ, maya_app_dir) == Update(environ, EnvOverrides(maya_app_dir))

LauncherEnv(environ, maya_app_dir) == environ

\* environments a launcher is started from
BaseEnv == [k \in {"PATH", "MAYA_SCRIPT_PATH"} |->
              IF k = "PATH" THEN "/usr/bin" ELSE "/home/user/maya/scripts"]

StartEnvs ==
  { BaseEnv,
    Update(BaseEnv, [k \in {"MAYA_LOCATION"} |-> OverrideLocation]),
    Update(BaseEnv, [k \in {"MAYA_LOCATION", "MAYA_APP_DIR"} |->
                       IF k = "MAYA_LOCATION" THEN OverrideLocation ELSE "/home/user/maya"]) }

----------------------------------------------------------------------------
(* get_maya_location / get_mayapy_executable *)

\* location computed by get_maya_location before the existence test
DefaultSuffixOffByOne(maya_version) == IF maya_version <= 2016 THEN "-x64" ELSE ""

DefaultSuffix(maya_version) == IF maya_version < 2016 THEN "-x64" ELSE ""

Location(environ, system, maya_version) ==
  IF "MAYA_LOCATION" \in DOMAIN environ
    THEN environ["MAYA_LOCATION"]
    ELSE CASE system = "Windows" ->
                "C:/Program Files/Autodesk/Maya" \o ToString(maya_version)
           [] system = "Darwin" ->
                "/Applications/Autodesk/maya" \o ToString(maya_version) \o "/Maya.app/Contents"
           [] OTHER ->
                "/usr/autodesk/maya" \o ToString(maya_version) \o DefaultSuffix(maya_version)

\* the test guarding the RuntimeError of get_maya_location
NotInstalledNoExistsTest(location, paths) == location = None

NotInstalled(location, paths) == location = None \/ location \notin paths

\* get_maya_location: the location, or None when RuntimeError is raised
get_maya_location(environ, system, maya_version, paths) ==
  LET location == Location(environ, system, maya_version)
  IN IF NotInstalled(location, paths) THEN None ELSE location

\* get_mayapy_executable: the interpreter path, or None when get_maya_location raised
get_mayapy_executable(environ, system, maya_version, paths) ==
  LET location == get_maya_location(environ, system, maya_version, paths)
  IN IF location = None THEN None
     ELSE location \o "/bin/mayapy" \o (IF system = "Windows" THEN ".exe" ELSE "")

NotInstalledMessage(maya_version) ==
  "Maya " \o ToString(maya_version) \o " is not installed on this system."

----------------------------------------------------------------------------
(* Directory trees: a directory is the set of the entries it holds *)

\* "file"/"log": writable files; "rofile": a read-only file;
\* "rodir": a read-only sub-directory that holds files
EntryKinds == {"file", "log", "rofile", "rodir"}

\* contents of CURRENT_DIR/clean_maya_app_dir the harness is shipped with
Templates == {{"file"}, {"file", "rofile"}}

\* entries a mayapy child may leave in its MAYA_APP_DIR
ChildEntries == {"log", "rodir"}

\* os.remove/os.rmdir inside shutil.rmtree fails on the entry: a read-only
\* file cannot be unlinked on Windows, a read-only sub-directory cannot be
\* emptied (POSIX) or removed (Windows)
Blocked(system, entry) ==
  entry = "rodir" \/ (entry = "rofile" /\ system = "Windows")

BlockedIn(system, content) == {e \in content : Blocked(system, e)}

\* what shutil.rmtree leaves of a directory it failed on: it stops at the
\* first entry it cannot remove, the entries visited before are gone
Leftovers(system, content) ==
  {s \in SUBSET content : BlockedIn(system, content) \subseteq s}

\* function shutil.rmtree hands to onerror for a failing entry
\* (os.remove under Python 2, os.unlink under Python 3)
FailingFuncs(system, entry) ==
  IF entry = "rodir" /\ system = "Windows" THEN {"os.rmdir"}
  ELSE {"os.remove", "os.unlink"}

\* remove_read_only(func, path, exc): the exception it ends with. The
\* module never imports errno, so the chmod-and-retry branch is not reached.
remove_read_only(func) ==
  IF func \in {"os.rmdir", "os.remove"} THEN "NameError" ELSE "RuntimeError"

RemoveDir(dirs, p) == [q \in (DOMAIN dirs) \ {p} |-> dirs[q]]

PutDir(dirs, p, content) ==
  [q \in (DOMAIN dirs) \cup {p} |-> IF q = p THEN content ELSE dirs[q]]

----------------------------------------------------------------------------
(* The launcher, run_tests.main *)

VARIABLES
  platform,      \* platform.system() of the host
  paths,         \* install locations and executables that exist on the host
  template,      \* content of CURRENT_DIR/clean_maya_app_dir
  fs,            \* directories under tempfile.gettempdir(): path -> content
  issued,        \* values uuid.uuid4() has returned so far
  pc,            \* position of each launcher in main
  maya,          \* pargs.maya
  os_environ,    \* os.environ of each launcher process
  mayapy,        \* command[0]
  maya_app_dir,  \* path returned by create_clean_maya_app_dir, None before
  spawned,       \* call() started the mayapy child of the run
  child_env,     \* env the child was started with (meaningful once spawned)
  returncode,    \* value call() returned (meaningful once pending = "SystemExit")
  pending,       \* exception in flight when the finally clause is entered
  exitcode,      \* exit status of the launcher process (meaningful once pc = "done")
  error          \* exception the launcher died of, None for a plain sys.exit

\* suite.py, one mayapy process
VARIABLES
  host_ok,       \* maya.standalone.initialize succeeds in this process
  test_dir,      \* TEST_DIR on disk: the outcome of each test it holds, in order
  importable,    \* TEST_DIR exists and is importable
  spc,           \* position of the process in suite.py
  standalone,    \* state of the maya.standalone runtime
  trace,         \* the steps taken so far, in order
  suite,         \* the TestSuite loader.discover returned
  errors,        \* runner.run(suite).errors: positions of the tests that raised
  failures,      \* runner.run(suite).failures: positions of the tests whose assertion failed
  retval,        \* value main returns (meaningful once spc = "returned")
  exit_status    \* exit status of the process (meaningful once spc = "exited")

launcher == <<platform, paths, template, fs, issued, pc, maya, os_environ, mayapy,
              maya_app_dir, spawned, child_env, returncode, pending,
              exitcode, error>>

entry == <<host_ok, test_dir, importable, spc, standalone, trace, suite, errors,
           failures, retval, exit_status>>

vars == <<launcher, entry>>

host == <<platform, paths, template>>

\* exit codes of the mayapy child
ExitCodes == {0, 2}

\* exit status of a Python process that dies of an uncaught exception
UncaughtExit == 1

\* uuid.uuid4(): a value that no earlier call returned
uuid4Repeating(given) == Names

uuid4(given) == Names \ given

\* directories the Maya installers of the modelled versions create
InstallDirs(system) ==
  CASE system = "Windows" ->
         {"C:/Program Files/Autodesk/Maya2015", "C:/Program Files/Autodesk/Maya2016",
          "C:/Program Files/Autodesk/Maya2020"}
    [] system = "Darwin" ->
         {"/Applications/Autodesk/maya2015/Maya.app/Contents",
          "/Applications/Autodesk/maya2016/Maya.app/Contents",
          "/Applications/Autodesk/maya2020/Maya.app/Contents"}
    [] OTHER ->
         {"/usr/autodesk/maya2015-x64", "/usr/autodesk/maya2016", "/usr/autodesk/maya2020"}

\* the interpreter an installation ships in its bin directory
Executables(system, locations) ==
  {l \o (IF system = "Windows" THEN "/bin/mayapy.exe" ELSE "/bin/mayapy") : l \in locations}

\* what may exist on a host: nothing, a custom install, or the default installs,
\* each with or without its interpreter
Disks(system) ==
  UNION {{installed, installed \cup Executables(system, installed)} :
           installed \in {{}, {OverrideLocation}, InstallDirs(system)}}

\* what Init and SoloInit share: no launcher has done anything yet
Fresh ==
  /\ issued = {}
  /\ pc = [r \in Runs |-> "start"]
  /\ mayapy = [r \in Runs |-> None]
  /\ maya_app_dir = [r \in Runs |-> None]
  /\ spawned = [r \in Runs |-> FALSE]
  /\ child_env = [r \in Runs |-> <<>>]
  /\ returncode = [r \in Runs |-> 0]
  /\ pending = [r \in Runs |-> None]
  /\ exitcode = [r \in Runs |-> 0]
  /\ error = [r \in Runs |-> None]

\* Spec and SoloSpec leave the inside of the mayapy child to SuiteSpec
NoEntry ==
  /\ host_ok = TRUE
  /\ test_dir = <<>>
  /\ importable = TRUE
  /\ spc = "start"
  /\ standalone = "off"
  /\ trace = <<>>
  /\ suite = <<>>
  /\ errors = {}
  /\ failures = {}
  /\ retval = FALSE
  /\ exit_status = 0

\* a directory a crashed run or another program left under tempfile.gettempdir()
StaleDirs == {<<>>} \cup {[p \in {AppDirPath(1)} |-> c] : c \in {{"file"}, {"rodir"}}}

\* Spec: every launcher is started as `python run_tests.py` (pargs.maya is
\* the default, 2020) from the same shell, on any host
Init ==
  /\ platform \in Platforms
  /\ paths \in Disks(platform)
  /\ template \in Templates
  /\ fs \in StaleDirs
  /\ maya = [r \in Runs |-> 2020]
  /\ os_environ = [r \in Runs |-> BaseEnv]
  /\ Fresh
  /\ NoEntry

\* SoloSpec: one launcher, started with any version and environment on any host
SoloInit ==
  /\ platform \in Platforms
  /\ paths \in Disks(platform)
  /\ template \in Templates
  /\ fs \in StaleDirs
  /\ maya \in [Runs -> Versions]
  /\ os_environ \in [Runs -> StartEnvs]
  /\ \A r \in Runs : r # 1 => maya[r] = 2020 /\ os_environ[r] = BaseEnv
  /\ Fresh
  /\ NoEntry

\* the launcher dies of an uncaught exception
Die(r, exc) ==
  /\ pc' = [pc EXCEPT ![r] = "done"]
  /\ exitcode' = [exitcode EXCEPT ![r] = UncaughtExit]
  /\ error' = [error EXCEPT ![r] = exc]

\* env = os.environ.copy(); mayapy = get_mayapy_executable(pargs.maya):
\* the RuntimeError of get_maya_location is not caught
Resolve(r) ==
  /\ pc[r] = "start"
  /\ LET exe == get_mayapy_executable(os_environ[r], platform, maya[r], paths)
     IN IF exe = None
          THEN /\ Die(r, NotInstalledMessage(maya[r]))
               /\ UNCHANGED mayapy
          ELSE /\ mayapy' = [mayapy EXCEPT ![r] = exe]
               /\ pc' = [pc EXCEPT ![r] = "resolved"]
               /\ UNCHANGED <<exitcode, error>>
  /\ UNCHANGED <<host, fs, issued, maya, os_environ, maya_app_dir, spawned,
                 child_env, returncode, pending>>
  /\ UNCHANGED entry

\* maya_app_dir = create_clean_maya_app_dir(); env.update({...})
create_clean_maya_app_dir(r) ==
  /\ pc[r] = "resolved"
  /\ \E n \in uuid4(issued) :
       LET p == AppDirPath(n)
           stuck == IF p \in DOMAIN fs THEN BlockedIn(platform, fs[p]) ELSE {}
       IN /\ issued' = issued \cup {n}
          /\ IF stuck = {}
               THEN \* rmtree of a directory found under the name, then copytree
                    /\ fs' = PutDir(fs, p, template)
                    /\ maya_app_dir' = [maya_app_dir EXCEPT ![r] = p]
                    /\ os_environ' = [os_environ EXCEPT ![r] = LauncherEnv(@, p)]
                    /\ pc' = [pc EXCEPT ![r] = "created"]
                    /\ UNCHANGED <<exitcode, error>>
               ELSE \* rmtree calls remove_read_only on the entry, which raises
                    /\ \E left \in Leftovers(platform, fs[p]) : fs' = PutDir(fs, p, left)
                    /\ \E e \in stuck : \E func \in FailingFuncs(platform, e) :
                         Die(r, remove_read_only(func))
                    /\ UNCHANGED <<maya_app_dir, os_environ>>
  /\ UNCHANGED <<host, maya, mayapy, spawned, child_env, returncode, pending>>
  /\ UNCHANGED entry

\* call(command, env=env): the child starts, or the executable is missing
Spawn(r) ==
  /\ pc[r] = "created"
  /\ IF mayapy[r] \in paths
       THEN /\ spawned' = [spawned EXCEPT ![r] = TRUE]
            /\ child_env' = [child_env EXCEPT ![r] = ChildEnv(os_environ[r], maya_app_dir[r])]
            /\ pc' = [pc EXCEPT ![r] = "running"]
            /\ UNCHANGED pending
       ELSE /\ pending' = [pending EXCEPT ![r] = "OSError"]
            /\ pc' = [pc EXCEPT ![r] = "finally"]
            /\ UNCHANGED <<spawned, child_env>>
  /\ UNCHANGED <<host, fs, issued, maya, os_environ, mayapy, maya_app_dir,
                 returncode, exitcode, error>>
  /\ UNCHANGED entry

\* the mayapy child writes preferences into the directory MAYA_APP_DIR names
ChildWrite(r) ==
  /\ pc[r] = "running"
  /\ child_env[r]["MAYA_APP_DIR"] \in DOMAIN fs
  /\ \E e \in ChildEntries \ fs[child_env[r]["MAYA_APP_DIR"]] :
       fs' = [fs EXCEPT ![child_env[r]["MAYA_APP_DIR"]] = @ \cup {e}]
  /\ UNCHANGED <<host, issued, pc, maya, os_environ, mayapy, maya_app_dir,
                 spawned, child_env, returncode, pending, exitcode, error>>
  /\ UNCHANGED entry

\* the child exits, call() returns its code and sys.exit raises SystemExit
ChildExit(r) ==
  /\ pc[r] = "running"
  /\ \E c \in ExitCodes : returncode' = [returncode EXCEPT ![r] = c]
  /\ pending' = [pending EXCEPT ![r] = "SystemExit"]
  /\ pc' = [pc EXCEPT ![r] = "finally"]
  /\ UNCHANGED <<host, fs, issued, maya, os_environ, mayapy, maya_app_dir,
                 spawned, child_env, exitcode, error>>
  /\ UNCHANGED entry

\* finally: shutil.rmtree(maya_app_dir); then the pending exception ends main
Cleanup(r) ==
  /\ pc[r] = "finally"
  /\ LET p == maya_app_dir[r]
     IN IF p \notin DOMAIN fs
          THEN /\ Die(r, "FileNotFoundError")
               /\ UNCHANGED fs
          ELSE IF BlockedIn(platform, fs[p]) = {}
            THEN /\ fs' = RemoveDir(fs, p)
                 /\ pc' = [pc EXCEPT ![r] = "done"]
                 /\ IF pending[r] = "SystemExit"
                      THEN /\ exitcode' = [exitcode EXCEPT ![r] = returncode[r]]
                           /\ UNCHANGED error
                      ELSE /\ exitcode' = [exitcode EXCEPT ![r] = UncaughtExit]
                           /\ error' = [error EXCEPT ![r] = pending[r]]
            ELSE /\ \E left \in Leftovers(platform, fs[p]) : fs' = PutDir(fs, p, left)
                 /\ Die(r, "PermissionError")
  /\ UNCHANGED <<host, issued, maya, os_environ, mayapy, maya_app_dir, spawned,
                 child_env, returncode, pending>>
  /\ UNCHANGED entry

\* one step of launcher r
Step(r) ==
  \/ Resolve(r)
  \/ create_clean_maya_app_dir(r)
  \/ Spawn(r)
  \/ ChildWrite(r)
  \/ ChildExit(r)
  \/ Cleanup(r)

Next == \E r \in Runs : Step(r)

Spec == Init /\ [][Next]_vars

SoloNext == Step(1)

SoloSpec == SoloInit /\ [][SoloNext]_vars

----------------------------------------------------------------------------
(* The in-process entry point, suite.py *)

\* number of test methods under TEST_DIR
MaxTests == 3

\* how one test ends: it passes, an assertion fails, or it raises
Outcomes == {"pass", "fail", "error"}

\* sys.exit(main()): True exits with status 1, False with status 0
ExitStatus(flag) == IF flag THEN 1 ELSE 0

\* main's return value: bool(runner.run(suite).errors)
HadErrors(errs, fails) == errs # {}

\* SuiteSpec: mayapy runs suite.py on a host where the launcher is not modelled
SuiteInit ==
  /\ host_ok \in BOOLEAN
  /\ importable \in BOOLEAN
  /\ \E n \in 0..MaxTests : test_dir \in [1..n -> Outcomes]
  /\ importable = FALSE => test_dir = <<>>
  /\ spc = "start"
  /\ standalone = "off"
  /\ trace = <<>>
  /\ suite = <<>>
  /\ errors = {}
  /\ failures = {}
  /\ retval = FALSE
  /\ exit_status = 0
  /\ platform = "Linux"
  /\ paths = {}
  /\ template = {"file"}
  /\ fs = <<>>
  /\ maya = [r \in Runs |-> 2020]
  /\ os_environ = [r \in Runs |-> BaseEnv]
  /\ Fresh

\* an exception leaves main: traceback, exit status 1
Raise ==
  /\ spc' = "exited"
  /\ exit_status' = UncaughtExit
  /\ trace' = Append(trace, "exit")

\* with mayapy_session(): session_setup() runs up to the yield
session_setup ==
  /\ spc = "start"
  /\ IF host_ok
       THEN /\ standalone' = "initialized"
            /\ trace' = Append(trace, "initialize")
            /\ spc' = "session"
            /\ UNCHANGED exit_status
       ELSE /\ Raise
            /\ UNCHANGED standalone
  /\ UNCHANGED <<host_ok, test_dir, importable, suite, errors, failures, retval>>
  /\ UNCHANGED launcher

\* suite = loader.discover(TEST_DIR). An ImportError is thrown into the
\* generator of mayapy_session at its yield, where nothing catches it:
\* session_teardown is skipped and the exception leaves main
Discover ==
  /\ spc = "session"
  /\ IF importable
       THEN /\ suite' = test_dir
            /\ trace' = Append(trace, "discover")
            /\ spc' = "discovered"
            /\ UNCHANGED exit_status
       ELSE /\ spc' = "exited"
            /\ exit_status' = UncaughtExit
            /\ trace' = trace \o <<"discover", "exit">>
            /\ UNCHANGED suite
  /\ UNCHANGED <<host_ok, test_dir, importable, standalone, errors, failures, retval>>
  /\ UNCHANGED launcher

\* runner.run(suite): every test runs, the TestResult collects the outcomes
Run ==
  /\ spc = "discovered"
  /\ errors' = {i \in DOMAIN suite : suite[i] = "error"}
  /\ failures' = {i \in DOMAIN suite : suite[i] = "fail"}
  /\ trace' = Append(trace, "execute")
  /\ spc' = "ran"
  /\ UNCHANGED <<host_ok, test_dir, importable, standalone, suite, retval, exit_status>>
  /\ UNCHANGED launcher

\* return bool(...errors) leaves the with block: the generator resumes after
\* the yield and session_teardown() runs
session_teardown ==
  /\ spc = "ran"
  /\ retval' = HadErrors(errors, failures)
  /\ standalone' = "uninitialized"
  /\ trace' = Append(trace, "teardown")
  /\ spc' = "returned"
  /\ UNCHANGED <<host_ok, test_dir, importable, suite, errors, failures, exit_status>>
  /\ UNCHANGED launcher

\* sys.exit(main())
Exit ==
  /\ spc = "returned"
  /\ exit_status' = ExitStatus(retval)
  /\ trace' = Append(trace, "exit")
  /\ spc' = "exited"
  /\ UNCHANGED <<host_ok, test_dir, importable, standalone, suite, errors, failures, retval>>
  /\ UNCHANGED launcher

SuiteNext ==
  \/ session_setup
  \/ Discover
  \/ Run
  \/ session_teardown
  \/ Exit

SuiteSpec == SuiteInit /\ [][SuiteNext]_vars

----------------------------------------------------------------------------
(* Properties of the launcher *)

\* the run holds a preferences directory it has not yet cleaned up
InProgress(r) == pc[r] \in {"created", "running", "finally"}

\* the launcher of run r has terminated after its child exited
Relayed(r) == pc[r] = "done" /\ spawned[r] /\ pending[r] = "SystemExit"

\* C1: a launcher whose child was spawned and exited with code c terminates
\* with exit code c.
C1_ExitCodeForwarded ==
  \A r \in Runs : Relayed(r) => exitcode[r] = returncode[r]

\* C3: the directory of a run has a name no other run uses, holds exactly a
\* copy of the template when create_clean_maya_app_dir returns, and is gone
\* once the launcher has terminated.
C3_FreshDirCreatedAndRemoved ==
  /\ \A r, q \in Runs :
       r # q /\ maya_app_dir[r] # None => maya_app_dir[q] # maya_app_dir[r]
  /\ \A r \in Runs :
       pc[r] = "created" =>
         maya_app_dir[r] \in DOMAIN fs /\ fs[maya_app_dir[r]] = template
  /\ \A r \in Runs :
       pc[r] = "done" /\ maya_app_dir[r] # None => maya_app_dir[r] \notin DOMAIN fs

\* entries of a directory that carry the read-only attribute
ReadOnlyIn(content) == content \cap {"rofile", "rodir"}

\* C4: when the preferences directory holds read-only entries at the end of a
\* run, the cleanup still removes it and the launcher does not die of them.
C4_CleanupToleratesReadOnly ==
  [][\A r \in Runs :
       ( /\ pc[r] = "finally"
         /\ pc'[r] = "done"
         /\ maya_app_dir[r] \in DOMAIN fs
         /\ ReadOnlyIn(fs[maya_app_dir[r]]) # {} )
       => /\ maya_app_dir[r] \notin DOMAIN fs'
          /\ error'[r] # "PermissionError"]_vars

\* location and interpreter the documentation of get_mayapy_executable promises
ExpectedLocation(r) ==
  IF "MAYA_LOCATION" \in DOMAIN os_environ[r] THEN os_environ[r]["MAYA_LOCATION"]
  ELSE IF platform = "Windows" THEN "C:/Program Files/Autodesk/Maya" \o ToString(maya[r])
  ELSE IF platform = "Darwin"
    THEN "/Applications/Autodesk/maya" \o ToString(maya[r]) \o "/Maya.app/Contents"
  ELSE IF maya[r] < 2016 THEN "/usr/autodesk/maya" \o ToString(maya[r]) \o "-x64"
  ELSE "/usr/autodesk/maya" \o ToString(maya[r])

ExpectedMayapy(r) ==
  IF platform = "Windows" THEN ExpectedLocation(r) \o "/bin/mayapy.exe"
  ELSE ExpectedLocation(r) \o "/bin/mayapy"

\* C5: get_mayapy_executable returns <location>/bin/mayapy (.exe on Windows
\* only), the location being MAYA_LOCATION when set and else the platform
\* default, with -x64 on other platforms exactly for versions before 2016.
C5_MayapyPath ==
  \A r \in Runs :
    pc[r] # "start" /\ ExpectedLocation(r) \in paths => mayapy[r] = ExpectedMayapy(r)

C5_Witness ==
  /\ platform = "Linux"
  /\ \E r \in Runs :
       /\ pc[r] = "resolved"
       /\ "MAYA_LOCATION" \notin DOMAIN os_environ[r]
       /\ maya[r] = 2016
       /\ mayapy[r] = "/usr/autodesk/maya2016/bin/mayapy"

\* C6: when the resolved location does not exist, the launcher dies of the
\* "not installed" error, having created no directory and spawned no child.
C6_NotInstalledAborts ==
  \A r \in Runs :
    pc[r] # "start" /\ Location(os_environ[r], platform, maya[r]) \notin paths =>
      /\ pc[r] = "done"
      /\ error[r] = "Maya " \o ToString(maya[r]) \o " is not installed on this system."
      /\ exitcode[r] # 0
      /\ maya_app_dir[r] = None
      /\ ~spawned[r]
      /\ issued = {}

C6_Witness ==
  \E r \in Runs :
    /\ pc[r] = "done"
    /\ "MAYA_LOCATION" \in DOMAIN os_environ[r]
    /\ os_environ[r]["MAYA_LOCATION"] \notin paths
    /\ error[r] = "Maya 2015 is not installed on this system."

\* C7: when the removal of the directory fails after the child exited with
\* code c, the launcher still terminates with exit code c and no error.
C7_CleanupFailureNotFatal ==
  [][\A r \in Runs :
       ( /\ pc[r] = "finally"
         /\ pending[r] = "SystemExit"
         /\ pc'[r] = "done"
         /\ maya_app_dir[r] \in DOMAIN fs' )
       => exitcode'[r] = returncode[r] /\ error'[r] = None]_vars

\* C9: the child's environment is the launcher's, except that MAYA_APP_DIR is
\* the directory of the run, MAYA_SCRIPT_PATH is empty and MAYA_MODULE_PATH is
\* <parent>/modules;<launcher dir>; the launcher's own environment never changes.
C9_ChildEnvironment ==
  /\ [](\A r \in Runs :
          spawned[r] =>
            /\ DOMAIN child_env[r] =
                 (DOMAIN os_environ[r]) \cup {"MAYA_APP_DIR", "MAYA_SCRIPT_PATH", "MAYA_MODULE_PATH"}
            /\ child_env[r]["MAYA_APP_DIR"] = maya_app_dir[r]
            /\ child_env[r]["MAYA_SCRIPT_PATH"] = ""
            /\ child_env[r]["MAYA_MODULE_PATH"] =
                 "/repo/maya-tests/../modules;/repo/maya-tests"
            /\ \A k \in (DOMAIN os_environ[r]) \
                          {"MAYA_APP_DIR", "MAYA_SCRIPT_PATH", "MAYA_MODULE_PATH"} :
                 child_env[r][k] = os_environ[r][k])
  /\ [][os_environ' = os_environ]_vars

C9_Witness ==
  \E r \in Runs :
    /\ spawned[r]
    /\ "MAYA_APP_DIR" \in DOMAIN os_environ[r]
    /\ os_environ[r]["MAYA_APP_DIR"] # child_env[r]["MAYA_APP_DIR"]
    /\ os_environ[r]["MAYA_SCRIPT_PATH"] # ""

\* C10: concurrent runs hold distinct directories, each child is pointed at
\* the directory of its own run, the directory of a run in progress changes
\* only by that run's child or cleanup, and the template never changes.
C10_RunsIsolated ==
  /\ [](\A r \in Runs :
          /\ spawned[r] => child_env[r]["MAYA_APP_DIR"] = maya_app_dir[r]
          /\ \A q \in Runs :
               q # r /\ InProgress(r) /\ InProgress(q) => maya_app_dir[q] # maya_app_dir[r])
  /\ [][/\ template' = template
        /\ \A r \in Runs :
             InProgress(r) =>
               \/ /\ maya_app_dir[r] \in DOMAIN fs'
                  /\ fs'[maya_app_dir[r]] = fs[maya_app_dir[r]]
               \/ ChildWrite(r)
               \/ Cleanup(r)]_vars

C10_Witness ==
  \E r, q \in Runs :
    /\ r # q
    /\ pc[r] = "running"
    /\ pc[q] = "finally"
    /\ maya_app_dir[r] # maya_app_dir[q]
    /\ fs[maya_app_dir[r]] # template
    /\ fs[maya_app_dir[q]] # fs[maya_app_dir[r]]

----------------------------------------------------------------------------
(* Properties of the entry point *)

\* C2: the exit status is 0 exactly when every discovered test passed, and
\* non-zero when a test ended in an error or in an assertion failure.
C2_ExitStatusIsPassFail ==
  (spc = "exited" /\ "execute" \in {trace[i] : i \in DOMAIN trace}) =>
    (exit_status = 0 <=> \A i \in DOMAIN suite : suite[i] = "pass")

\* C8: when the host was initialised, the steps are initialise, discover,
\* execute, tear down, exit in that order, and the host is torn down exactly
\* once before the process exits, also when discovery or execution raises.
C8_TeardownOnEveryPath ==
  /\ \A i, j \in DOMAIN trace :
       i < j =>
         <<trace[i], trace[j]>> \in
           {<<"initialize", "discover">>, <<"initialize", "execute">>,
            <<"initialize", "teardown">>, <<"initialize", "exit">>,
            <<"discover", "execute">>, <<"discover", "teardown">>,
            <<"discover", "exit">>, <<"execute", "teardown">>,
            <<"execute", "exit">>, <<"teardown", "exit">>}
  /\ (spc = "exited" /\ "initialize" \in {trace[i] : i \in DOMAIN trace}) =>
       Cardinality({i \in DOMAIN trace : trace[i] = "teardown"}) = 1

====
